---- MODULE Spec2Model ----
(***************************************************************************)
(* State-machine model of the prm-agent executor: MonicaDataAgent          *)
(* (monica_data_agent.py) dispatching a function call proposed by the      *)
(* language model to the agent-level functions of monica_alf.py, which     *)
(* call the Monica store through the module bound as `monica_api`          *)
(* (monica_alf.py line 29: `import temp as monica_api`).                   *)
(*                                                                         *)
(* Text is modelled as a sequence of one-character strings so that         *)
(* str.lower(), str.strip() and the `in` substring test are computed.      *)
(***************************************************************************)
EXTENDS Integers, Sequences, FiniteSets, TLC

\* ------------------------------------------------------------------ bounds
\* execute_task calls in one run
MaxInvocations == 2
\* length of the list a contact search returns
MaxResults == 2
\* largest contact id the store hands out
MaxContactId == 4
\* user sessions running at the same time
MaxSessions == 2
\* calls of _find_or_create_company one session makes
MaxSessionCalls == 1
\* length of the conversational model's response, in characters and tags
MaxTurnLen == 6
\* callers of update_contact running at the same time
MaxEditors == 2
\* update_contact calls made for the contact, by all callers together
MaxEdits == 2
\* submit events of one browser session
MaxEvents == 3

\* -------------------------------------------------------------------- text
UpperCase == <<"A", "B", "J", "M", "E", "S", "Z">>
LowerCase == <<"a", "b", "j", "m", "e", "s", "z">>

LowerChar(c) ==
  IF \E i \in DOMAIN UpperCase : UpperCase[i] = c
  THEN LowerCase[CHOOSE i \in DOMAIN UpperCase : UpperCase[i] = c]
  ELSE c

\* str.lower()
Lower(s) == [i \in DOMAIN s |-> LowerChar(s[i])]

RECURSIVE LStrip(_)
LStrip(s) == IF s # <<>> /\ Head(s) = " " THEN LStrip(Tail(s)) ELSE s

RECURSIVE RStrip(_)
RStrip(s) ==
  IF s # <<>> /\ s[Len(s)] = " " THEN RStrip(SubSeq(s, 1, Len(s) - 1)) ELSE s

\* str.strip()
Strip(s) == RStrip(LStrip(s))

\* needle in hay
Contains(hay, needle) ==
  \E i \in 0..(Len(hay) - Len(needle)) : SubSeq(hay, i + 1, i + Len(needle)) = needle

Me == <<"m", "e">>
MeUpper == <<"M", "E">>
Al == <<"A", "l">>
AlLower == <<"a", "l">>
Bo == <<"B", "o">>
Smith == <<"S", "m", "i">>
Jones == <<"J", "o">>
AlSmith == <<"A", "l", " ", "S", "m", "i">>
Zed == <<"z", "e", "d">>
Acme == <<"A", "c", "m", "e">>
AcmeLower == <<"a", "c", "m", "e">>
Empty == <<>>

\* ------------------------------------------------------- store (external)
NoContact == [id |-> 0, first_name |-> Empty, last_name |-> Empty]

\* The contacts the store may hold; the third has an empty last name.
ContactPool ==
  { [id |-> 1, first_name |-> Al, last_name |-> Smith],
    [id |-> 2, first_name |-> Al, last_name |-> Jones],
    [id |-> 3, first_name |-> Bo, last_name |-> Empty] }

RelationshipTypes ==
  << [id |-> 1, name |-> <<"s", "p">>, name_reverse_relationship |-> <<"s", "p">>],
     [id |-> 2, name |-> <<"b", "o", "s", "s">>, name_reverse_relationship |-> <<"s", "u", "b">>] >>

ContactFieldTypes ==
  << [id |-> 1, name |-> <<"E", "m">>], [id |-> 2, name |-> <<"S", "M", "S">>] >>

RatherNotSay == <<"r", "n", "s">>

Genders == << [id |-> 1, name |-> <<"M", "a", "n">>], [id |-> 2, name |-> RatherNotSay] >>

TagList == << [id |-> 1, name |-> <<"v", "i", "p">>] >>

\* ------------------------------------------------------------- exceptions
NoError == [type |-> "none", kind |-> "none", name |-> Empty, found |-> <<>>]

Exc(type, kind, name, found) ==
  [type |-> type, kind |-> kind, name |-> name, found |-> found]

\* ------------------------------------------ the module bound as monica_api
\* Signatures of the functions of temp.py that monica_alf.py refers to.
Sig(req, opt, varkw) == [req |-> req, opt |-> opt, varkw |-> varkw]

TempFns ==
  { "list_contacts", "get_contact", "create_contact", "delete_contact",
    "list_genders", "list_activity_types", "list_contact_field_types",
    "list_relationship_types", "list_companies", "list_tags", "create_note",
    "create_activity", "create_call", "create_conversation", "create_task",
    "create_reminder", "create_debt", "create_gift", "create_company" }

TempSig(fn) ==
  CASE fn = "list_contacts" -> Sig({}, {"query", "page", "limit"}, FALSE)
    [] fn = "get_contact" -> Sig({"contact_id"}, {}, FALSE)
    [] fn = "create_contact" -> Sig({"first_name"}, {}, TRUE)
    [] fn = "delete_contact" -> Sig({"contact_id"}, {}, FALSE)
    [] fn = "list_tags" -> Sig({}, {}, FALSE)
    [] fn = "create_note" -> Sig({"contact_id", "body"}, {"is_favorite"}, FALSE)
    [] fn = "create_activity" ->
         Sig({"contact_id", "summary"}, {"description", "happened_at"}, FALSE)
    [] fn = "create_call" -> Sig({"contact_id", "called_at"}, {}, TRUE)
    [] fn = "create_conversation" ->
         Sig({"contact_id", "happened_at", "contact_field_type_id"}, {}, TRUE)
    [] fn = "create_task" -> Sig({"title"}, {"contact_id"}, TRUE)
    [] fn = "create_reminder" -> Sig({"contact_id", "title", "date"}, {}, FALSE)
    [] fn = "create_debt" ->
         Sig({"contact_id", "in_debt_to", "amount", "currency_code"}, {"reason"}, FALSE)
    [] fn = "create_gift" -> Sig({"contact_id", "name"}, {}, TRUE)
    [] fn = "create_company" -> Sig({"name"}, {}, TRUE)
    [] OTHER -> Sig({}, {}, FALSE)

\* Python's binding of keyword arguments to a signature.
Binds(sig, kw) ==
  /\ sig.req \subseteq kw
  /\ sig.varkw \/ kw \subseteq (sig.req \cup sig.opt)

\* The HTTP method each temp.py function passes to call().
Method(fn) ==
  CASE fn \in {"create_contact", "create_note", "create_activity", "create_call",
               "create_conversation", "create_task", "create_reminder",
               "create_debt", "create_gift", "create_company"} -> "POST"
    [] fn = "delete_contact" -> "DELETE"
    [] OTHER -> "GET"

Mutating(c) == c.method \in {"POST", "PUT", "DELETE"}

\* ------------------------------------------------- monica_alf.py: helpers
\* f"{c.get('first_name', '')} {c.get('last_name', '')}".strip()
FullName(c) == Strip(c.first_name \o <<" ">> \o c.last_name)

FoundNames(results) == [i \in DOMAIN results |-> FullName(results[i])]

\* Mutant: on several candidates guess the first one instead of raising.
_find_contact_by_name_first_guess(results, name) ==
  IF results = <<>>
  THEN [err |-> Exc("ValueError", "NoContactFound", name, <<>>), contact |-> NoContact]
  ELSE [err |-> NoError, contact |-> results[1]]

\* Mutant: on several candidates keep those whose full name contains the
\* query and return the survivor when there is exactly one.
_find_contact_by_name_substring_filter(results, name) ==
  LET keep == { i \in DOMAIN results : Contains(Lower(FullName(results[i])), Lower(name)) }
  IN  IF results = <<>>
      THEN [err |-> Exc("ValueError", "NoContactFound", name, <<>>), contact |-> NoContact]
      ELSE IF Len(results) > 1 /\ Cardinality(keep) # 1
           THEN [err |-> Exc("ValueError", "MultipleContactsFound", name,
                             FoundNames(results)),
                 contact |-> NoContact]
           ELSE IF Len(results) > 1
                THEN [err |-> NoError, contact |-> results[CHOOSE i \in keep : TRUE]]
                ELSE [err |-> NoError, contact |-> results[1]]

\* _find_contact_by_name, applied to the list that list_contacts(query=name)
\* returned: the contact, or the ValueError it raises.
_find_contact_by_name(results, name) ==
  IF results = <<>>
  THEN [err |-> Exc("ValueError", "NoContactFound", name, <<>>), contact |-> NoContact]
  ELSE IF Len(results) > 1
       THEN [err |-> Exc("ValueError", "MultipleContactsFound", name, FoundNames(results)),
             contact |-> NoContact]
       ELSE [err |-> NoError, contact |-> results[1]]

\* Mutant: the names are compared as they are, not lower-cased.
MatchByName_case_sensitive(listing, name) ==
  LET hits == { i \in DOMAIN listing : listing[i].name = name }
  IN  IF hits = {} THEN 0 ELSE listing[CHOOSE i \in hits : \A j \in hits : i <= j].id

\* The first entry of a listing whose name equals `name` ignoring case
\* (0 when there is none): the loops of _find_relationship_type_by_name,
\* remember_person, start_conversation_with and _find_or_create_company.
MatchByName(listing, name) ==
  LET hits == { i \in DOMAIN listing : Lower(listing[i].name) = Lower(name) }
  IN  IF hits = {} THEN 0 ELSE listing[CHOOSE i \in hits : \A j \in hits : i <= j].id

\* Mutant: only the forward name of a type is compared.
_find_relationship_type_by_name_forward_only(all_types, name) ==
  LET hits == { i \in DOMAIN all_types : Lower(all_types[i].name) = Lower(name) }
  IN  IF hits = {} THEN 0 ELSE all_types[CHOOSE i \in hits : \A j \in hits : i <= j].id

_find_relationship_type_by_name(all_types, name) ==
  LET hits == { i \in DOMAIN all_types :
                  \/ Lower(all_types[i].name) = Lower(name)
                  \/ Lower(all_types[i].name_reverse_relationship) = Lower(name) }
  IN  IF hits = {} THEN 0 ELSE all_types[CHOOSE i \in hits : \A j \in hits : i <= j].id

\* Mutant: the owe-yourself check (lines 253-254) is missing.
TrackDebtValidation_no_self_check(owes, owed) ==
  IF Lower(owes) # Me /\ Lower(owed) # Me
  THEN Exc("ValueError", "OnePartyMustBeMe", Empty, <<>>)
  ELSE NoError

\* track_debt lines 253-256: the error raised before anything else, if any.
TrackDebtValidation(owes, owed) ==
  IF Lower(owes) = Me /\ Lower(owed) = Me
  THEN Exc("ValueError", "OweYourself", Empty, <<>>)
  ELSE IF Lower(owes) # Me /\ Lower(owed) # Me
       THEN Exc("ValueError", "OnePartyMustBeMe", Empty, <<>>)
       ELSE NoError

\* ------------------------------------- monica_alf.py: the function bodies
\* A body is the sequence of steps the function performs, in source order.
Step(k, fn, kw, name, into, cids, err) ==
  [k |-> k, fn |-> fn, kw |-> kw, name |-> name, into |-> into, cids |-> cids, err |-> err]

\* contact = _find_contact_by_name(name)
FindContact(name, into) ==
  Step("find_contact", "list_contacts", {"query"}, name, into, {}, NoError)
\* monica_api.<fn>(<kw>) carrying the ids of the contacts named in cids
Api(fn, kw, cids) == Step("api", fn, kw, Empty, "", cids, NoError)
\* a listing call followed by a search for `name` in the listing
Lookup(fn, kw, name) == Step("lookup", fn, kw, name, "", {}, NoError)
Validate(err) == Step("validate", "", {}, Empty, "", {}, err)
CompanyList(name) == Step("company_list", "list_companies", {}, name, "", {}, NoError)
CompanyCreate(name) == Step("company_create", "create_company", {"name"}, name, "", {}, NoError)

remember_person(a) ==
  << Lookup("list_genders", {}, IF "gender_name" \in DOMAIN a THEN a.gender_name ELSE RatherNotSay),
     Api("create_contact", {"first_name", "last_name", "nickname", "gender_id"}, {}) >>

find_people(a) == << Api("list_contacts", {"query"}, {}) >>

get_details_about_person(a) ==
  << FindContact(a.person_name, "contact"), Api("get_contact", {"contact_id"}, {"contact"}) >>

forget_person(a) ==
  << FindContact(a.person_name, "contact"), Api("delete_contact", {"contact_id"}, {"contact"}) >>

remember_something_about(a) ==
  << FindContact(a.person_name, "contact"),
     Api("create_note", {"contact_id", "body", "is_favorite"}, {"contact"}) >>

get_memories_about(a) ==
  << FindContact(a.person_name, "contact"),
     Api("list_contact_notes", {"contact_id"}, {"contact"}) >>

log_call_with(a) ==
  << FindContact(a.person_name, "contact"),
     Api("create_call", {"contact_id", "called_at", "content"}, {"contact"}) >>

start_conversation_with(a) ==
  << FindContact(a.person_name, "contact"),
     Lookup("list_contact_field_types", {}, a.medium),
     Api("create_conversation", {"contact_id", "happened_at", "contact_field_type_id"},
         {"contact"}) >>

add_message_to_conversation(a) ==
  << Api("get_conversation", {"conversation_id"}, {}),
     Api("add_message_to_conversation",
         {"conversation_id", "contact_id", "written_at", "written_by_me", "content"}, {}) >>

set_relationship(a) ==
  << FindContact(a.person1_name, "contact"),
     FindContact(a.person2_name, "contact2"),
     Lookup("list_relationship_types", {}, a.relationship_name),
     Api("create_relationship", {"contact_is", "relationship_type_id", "of_contact"},
         {"contact", "contact2"}) >>

create_task_for(a) ==
  << FindContact(a.person_name, "contact"),
     Api("create_task", {"contact_id", "title", "description"}, {"contact"}) >>

mark_task_as_complete(a) ==
  << Api("get_task", {"task_id"}, {}),
     Api("update_task", {"task_id", "contact_id", "completed"}, {}) >>

set_reminder_for(a) ==
  << FindContact(a.person_name, "contact"),
     Api("create_reminder",
         {"contact_id", "title", "next_expected_date", "frequency_type", "frequency_number"},
         {"contact"}) >>

\* Mutant: the contact is resolved before the parties are validated.
track_debt_resolve_first(a) ==
  << FindContact(IF Lower(a.person_who_owes_money) = Me
                 THEN a.person_who_is_owed_money
                 ELSE a.person_who_owes_money, "contact"),
     Validate(TrackDebtValidation(a.person_who_owes_money, a.person_who_is_owed_money)),
     Api("create_debt", {"contact_id", "in_debt", "status", "amount", "reason"}, {"contact"}) >>

track_debt(a) ==
  << Validate(TrackDebtValidation(a.person_who_owes_money, a.person_who_is_owed_money)),
     FindContact(IF Lower(a.person_who_owes_money) = Me
                 THEN a.person_who_is_owed_money
                 ELSE a.person_who_owes_money, "contact"),
     Api("create_debt", {"contact_id", "in_debt", "status", "amount", "reason"}, {"contact"}) >>

log_gift(a) ==
  << FindContact(a.person_name, "contact"),
     Api("create_gift", {"contact_id", "name", "status", "date", "amount"}, {"contact"}) >>

_find_or_create_company(a) ==
  << CompanyList(a.company_name), CompanyCreate(a.company_name) >>

\* Mutant: the company is found or created before the contact is resolved.
log_job_for_person_company_first(a) ==
  _find_or_create_company(a)
  \o << FindContact(a.person_name, "contact"),
        Api("create_occupation", {"contact_id", "company_id", "title", "start_date"},
            {"contact"}) >>

log_job_for_person(a) ==
  << FindContact(a.person_name, "contact") >>
  \o _find_or_create_company(a)
  \o << Api("create_occupation", {"contact_id", "company_id", "title", "start_date"},
            {"contact"}) >>

tag_person(a) ==
  << FindContact(a.person_name, "contact"),
     Api("set_tags_for_contact", {"contact_id", "tag_names"}, {"contact"}) >>

\* _find_tag_by_name is list_tags(limit=100) followed by a search
untag_person(a) ==
  << FindContact(a.person_name, "contact") >>
  \o [i \in DOMAIN a.tags_to_remove |-> Lookup("list_tags", {"limit"}, a.tags_to_remove[i])]
  \o (IF a.tags_to_remove = <<>>
      THEN <<>>
      ELSE << Api("unset_tags_for_contact", {"contact_id", "tag_ids"}, {"contact"}) >>)

\* ------------------------------------------- monica_data_agent.py: tools
\* self.tools: the functions advertised to the language model.
AlfTools ==
  {
    "remember_person", "find_people", "get_details_about_person", "forget_person",
    "remember_something_about", "get_memories_about", "log_call_with",
    "set_relationship", "create_task_for", "mark_task_as_complete",
    "set_reminder_for", "log_job_for_person", "tag_person" }

ApiCallerTools ==
  {
    "get_user", "list_genders", "list_currencies", "list_countries",
    "list_activity_types", "list_contact_field_types", "list_relationship_types",
    "get_contact_by_name", "get_contact_summary", "list_contacts", "get_contact",
    "create_contact", "update_contact", "delete_contact", "set_contact_occupation",
    "add_address", "update_address", "delete_address", "set_contact_field_value",
    "upload_document_for_contact", "upload_photo_for_contact", "create_relationship",
    "update_relationship", "delete_relationship", "list_all_notes",
    "list_contact_notes", "get_note", "create_note", "update_note", "delete_note",
    "create_reminder", "update_reminder", "delete_reminder", "get_task",
    "list_tasks", "create_task", "update_task", "delete_task", "list_debts",
    "get_debt", "create_debt", "update_debt", "delete_debt", "list_tags", "get_tag",
    "create_tag", "update_tag", "delete_tag", "set_tags_for_contact",
    "unset_tags_for_contact", "unset_all_tags_for_contact", "list_journal_entries",
    "get_journal_entry", "create_journal_entry", "update_journal_entry",
    "delete_journal_entry", "list_gifts", "get_gift", "create_gift", "update_gift",
    "delete_gift", "list_calls", "get_call", "create_call", "update_call",
    "delete_call", "list_conversations", "get_conversation", "create_conversation",
    "update_conversation", "delete_conversation", "add_message_to_conversation",
    "update_message_in_conversation", "delete_message", "list_companies",
    "get_company", "create_company", "delete_company" }

Tools == AlfTools \cup ApiCallerTools

\* The functions defined in monica_alf.py: what getattr(alf, name) can call.
AlfFunctions ==
  { "_find_contact_by_name", "_find_relationship_type_by_name", "_find_tag_by_name",
    "_find_or_create_company", "remember_person", "find_people",
    "get_details_about_person", "forget_person", "remember_something_about",
    "get_memories_about", "log_activity_with", "log_call_with",
    "start_conversation_with", "add_message_to_conversation", "set_relationship",
    "create_task_for", "mark_task_as_complete", "set_reminder_for", "track_debt",
    "log_gift", "log_job_for_person", "tag_person", "untag_person" }

\* The other attributes of the module: its imports (lines 27-29).
AlfImports ==
  { "Dict", "Any", "List", "Optional", "Literal", "Union", "datetime", "monica_api" }

AlfNamespace == AlfFunctions \cup AlfImports

AlfSig(name) ==
  CASE name = "remember_person" ->
         Sig({"first_name"}, {"last_name", "nickname", "gender_name"}, FALSE)
    [] name = "find_people" -> Sig({"query"}, {}, FALSE)
    [] name \in {"get_details_about_person", "forget_person", "get_memories_about"} ->
         Sig({"person_name"}, {}, FALSE)
    [] name = "remember_something_about" ->
         Sig({"person_name", "memory_text"}, {"is_important"}, FALSE)
    [] name = "log_call_with" -> Sig({"person_name", "date", "description"}, {}, FALSE)
    [] name = "start_conversation_with" ->
         Sig({"person_name", "date", "medium"}, {}, FALSE)
    [] name = "add_message_to_conversation" ->
         Sig({"conversation_id", "content", "written_by"}, {"date"}, FALSE)
    [] name = "set_relationship" ->
         Sig({"person1_name", "relationship_name", "person2_name"}, {}, FALSE)
    [] name = "create_task_for" -> Sig({"person_name", "title"}, {"description"}, FALSE)
    [] name = "mark_task_as_complete" -> Sig({"task_id"}, {}, FALSE)
    [] name = "set_reminder_for" ->
         Sig({"person_name", "title", "date"}, {"frequency_type", "frequency_number"}, FALSE)
    [] name = "track_debt" ->
         Sig({"person_who_owes_money", "person_who_is_owed_money", "amount"},
             {"reason", "is_settled"}, FALSE)
    [] name = "log_gift" ->
         Sig({"person_name", "gift_name", "status"}, {"date", "amount"}, FALSE)
    [] name = "log_job_for_person" ->
         Sig({"person_name", "job_title", "company_name"}, {"start_date"}, FALSE)
    [] name = "tag_person" -> Sig({"person_name", "tags"}, {}, FALSE)
    [] name = "untag_person" -> Sig({"person_name", "tags_to_remove"}, {}, FALSE)
    [] name = "_find_or_create_company" -> Sig({"company_name"}, {}, FALSE)
    [] OTHER -> Sig({}, {}, FALSE)

Body(name, a) ==
  CASE name = "remember_person" -> remember_person(a)
    [] name = "find_people" -> find_people(a)
    [] name = "get_details_about_person" -> get_details_about_person(a)
    [] name = "forget_person" -> forget_person(a)
    [] name = "remember_something_about" -> remember_something_about(a)
    [] name = "get_memories_about" -> get_memories_about(a)
    [] name = "log_call_with" -> log_call_with(a)
    [] name = "start_conversation_with" -> start_conversation_with(a)
    [] name = "add_message_to_conversation" -> add_message_to_conversation(a)
    [] name = "set_relationship" -> set_relationship(a)
    [] name = "create_task_for" -> create_task_for(a)
    [] name = "mark_task_as_complete" -> mark_task_as_complete(a)
    [] name = "set_reminder_for" -> set_reminder_for(a)
    [] name = "track_debt" -> track_debt(a)
    [] name = "log_gift" -> log_gift(a)
    [] name = "log_job_for_person" -> log_job_for_person(a)
    [] name = "tag_person" -> tag_person(a)
    [] name = "untag_person" -> untag_person(a)
    [] name = "_find_or_create_company" -> _find_or_create_company(a)
    [] OTHER -> <<>>

\* ----------------------------------------------------------------- inputs
Txt == <<"x">>
Queries == {AlLower, AlSmith, Zed}
Parties == {Me, MeUpper, AlSmith, Zed}
CompanyNames == {Acme, AcmeLower}

\* An argument map that fits no signature.
BadArgs == [unexpected |-> Txt]

\* The function names the language model may propose.
ProposedNames ==
  { "remember_person", "find_people", "get_details_about_person", "forget_person",
    "remember_something_about", "get_memories_about", "log_call_with",
    "start_conversation_with", "add_message_to_conversation", "set_relationship",
    "create_task_for", "mark_task_as_complete", "set_reminder_for", "track_debt",
    "log_gift", "log_job_for_person", "tag_person", "untag_person",
    "_find_or_create_company", "create_note", "monica_api", "frobnicate", "" }

ArgChoices(name) ==
  {BadArgs} \cup
  CASE name = "remember_person" ->
         {[first_name |-> Bo], [first_name |-> Bo, gender_name |-> Zed]}
    [] name = "find_people" -> {[query |-> q] : q \in Queries}
    [] name \in {"get_details_about_person", "forget_person", "get_memories_about"} ->
         {[person_name |-> q] : q \in Queries}
    [] name = "remember_something_about" ->
         {[person_name |-> q, memory_text |-> Txt] : q \in Queries}
    [] name = "log_call_with" ->
         {[person_name |-> q, date |-> Txt, description |-> Txt] : q \in Queries}
    [] name = "start_conversation_with" ->
         {[person_name |-> q, date |-> Txt, medium |-> m] :
            q \in Queries, m \in {<<"s", "m", "s">>, Zed}}
    [] name = "add_message_to_conversation" ->
         {[conversation_id |-> 1, content |-> Txt, written_by |-> Me]}
    [] name = "set_relationship" ->
         {[person1_name |-> q, relationship_name |-> r, person2_name |-> AlSmith] :
            q \in Queries, r \in {<<"S", "u", "b">>, Zed}}
    [] name = "create_task_for" ->
         {[person_name |-> q, title |-> Txt] : q \in Queries}
    [] name = "mark_task_as_complete" -> {[task_id |-> 1]}
    [] name = "set_reminder_for" ->
         {[person_name |-> q, title |-> Txt, date |-> Txt] : q \in Queries}
    [] name = "track_debt" ->
         {[person_who_owes_money |-> x, person_who_is_owed_money |-> y, amount |-> 50] :
            x \in Parties, y \in Parties}
    [] name = "log_gift" ->
         {[person_name |-> q, gift_name |-> Txt, status |-> Txt] : q \in Queries}
    [] name = "log_job_for_person" ->
         {[person_name |-> q, job_title |-> Txt, company_name |-> c] :
            q \in Queries, c \in CompanyNames}
    [] name = "tag_person" -> {[person_name |-> q, tags |-> <<Txt>>] : q \in Queries}
    [] name = "untag_person" ->
         {[person_name |-> q, tags_to_remove |-> t] :
            q \in Queries, t \in {<<>>, <<Txt>>, <<TagList[1].name>>}}
    [] name = "_find_or_create_company" -> {[company_name |-> c] : c \in CompanyNames}
    [] OTHER -> {}

\* ------------------------------------------------------------------ state
VARIABLES
  contacts,        \* store: the contacts
  nextContactId,   \* store: the id the next created contact gets
  companies,       \* store: the companies, in listing order
  inv,             \* number of execute_task calls begun
  pc,              \* position inside execute_task
  tool_name,       \* fc.name
  tool_args,       \* fc.args
  ip,              \* index of the next step of the running function
  locals,          \* the running function's local variables
  calls,           \* HTTP requests sent to the store during this call
  phases,          \* the dispatcher phases entered during this call
  ret,             \* what execute_task returned
  journal,         \* the company requests of the preceding call, a log_job_for_person
  sessions,        \* per user session: its position in _find_or_create_company
  orchestrator,    \* the module whose process_user_turn runs: main or bff_bot
  turn_pc,         \* position inside process_user_turn
  response_text,   \* response.text of the conversational model
  task_prompt,     \* the text handed to execute_task
  display_text,    \* the conversational part shown to the user
  delegated,       \* the execute_task calls made during this turn
  transport,       \* one call() of the transport helper: request, response, outcome
  person,          \* store: the contact that update_contact is called for
  editors,         \* per caller of update_contact: its position and its local variables
  ui               \* app.py: the components and states of one browser session

\* the state of the concurrent sessions and of the dialogue turn
\* the state of the machines that run beside execute_task, the sessions and
\* the dialogue turn
apart == << transport, person, editors, ui >>

aside ==
  << sessions, orchestrator, turn_pc, response_text, task_prompt, display_text, delegated,
     apart >>

vars ==
  << contacts, nextContactId, companies, inv, pc, tool_name, tool_args, ip, locals,
     calls, phases, ret, journal, aside >>

NoLocals == [contact |-> NoContact, contact2 |-> NoContact, company |-> 0, found |-> 0]
NoRet == [origin |-> "none", e |-> NoError]

\* app.py line 66: every user session holds its own orchestrator
Sessions == 1..MaxSessions

IdleSession == [pc |-> "idle", name |-> Empty, seen |-> <<>>, company |-> 0, runs |-> 0]

\* no call() is in progress
IdleTransport ==
  [pc |-> "idle", method |-> "GET", status |-> 0, body |-> "none", raised |-> "none",
   payload |-> "none"]

\* Python's None where a text is expected
None == <<"None">>

\* a key that a dict does not hold
Absent == "absent"

\* the flat fields of a contact: parameters of create_contact (temp.py
\* lines 85-89) that the PUT payload of update_contact carries
CoreFields ==
  { "first_name", "nickname", "work_job_title", "work_company_name",
    "is_birthdate_known", "is_deceased", "is_deceased_date_known" }

\* the keys of the contact object that update_contact reads as objects
NestedFields == {"birthdate", "deceased_date"}

DictKeys == CoreFields \cup NestedFields \cup {"id"}

EmptyDict == [k \in DictKeys |-> Absent]

\* no contact has been created yet
NoPerson ==
  [exists |-> FALSE, shape |-> "nested", version |-> 0, edits |-> 0, fields |-> EmptyDict]

\* the callers of update_contact
Editors == 1..MaxEditors

IdleEditor ==
  [pc |-> "idle", op |-> "none", first_name |-> Absent, updates |-> EmptyDict,
   current_data |-> EmptyDict, seen |-> 0, got |-> EmptyDict, got_at |-> 0]

\* app.py lines 50, 66, 67 and 63: Chatbot, gr.State(None), gr.State("") and
\* the log Textbox; texts of log entries are sequences of entries
InitialUi ==
  [chatbot |-> <<>>, orchestrator |-> 0, logs_state |-> <<>>, log_output |-> <<>>,
   user_input |-> Empty, ended |-> "none", created |-> 0, called |-> 0, events |-> 0]

\* everything but the choice of the orchestrator module
InitState ==
  /\ contacts = ContactPool
  /\ nextContactId = 4
  /\ companies \in {<<>>, << [id |-> 1, name |-> Acme] >>}
  /\ inv = 0
  /\ pc = "idle"
  /\ tool_name = ""
  /\ tool_args = BadArgs
  /\ ip = 0
  /\ locals = NoLocals
  /\ calls = <<>>
  /\ phases = <<>>
  /\ ret = NoRet
  /\ journal = <<>>
  /\ sessions = [s \in Sessions |-> IdleSession]
  /\ turn_pc = "idle"
  /\ response_text = Empty
  /\ task_prompt = None
  /\ display_text = Empty
  /\ delegated = <<>>
  /\ transport = IdleTransport
  /\ person = NoPerson
  /\ editors = [e \in Editors |-> IdleEditor]
  /\ ui = InitialUi

\* app.py line 4: the orchestrator is main.StatefulOrchestrator
Init == InitState /\ orchestrator = "main"

\* ------------------------------------------ execute_task (lines 135-175)
\* The exception types raised in this model; all derive from Exception.
ExceptionClasses == {"Exception", "AttributeError", "TypeError", "ValueError", "HTTPError"}

\* Mutant: the clause is `except ValueError`, everything else propagates.
ExceptHandler_value_error_only(e) ==
  IF e.type = "ValueError" THEN [origin |-> "apology", e |-> e]
  ELSE [origin |-> "escaped", e |-> e]

\* lines 172-175: `except Exception as e` returns an apology text naming e;
\* an exception of another kind would leave execute_task.
ExceptHandler(e) ==
  IF e.type \in ExceptionClasses THEN [origin |-> "apology", e |-> e]
  ELSE [origin |-> "escaped", e |-> e]

\* line 170: the text of the summarising model response
SummaryReturn == [origin |-> "summary", e |-> NoError]

PhaseOf(k) ==
  CASE k = "validate" -> "VALIDATED"
    [] k = "api" -> "EXECUTING"
    [] OTHER -> "RESOLVING_ENTITIES"

Enter(p) == IF phases # <<>> /\ phases[Len(phases)] = p THEN phases ELSE Append(phases, p)

\* An exception propagates to the except clause of execute_task, which returns.
Raise(e, ps) ==
  /\ ret' = ExceptHandler(e)
  /\ pc' = "done"
  /\ phases' = Append(ps, "FAILED")

\* monica_api.<fn>(**kw): the error Python raises before any request is sent.
CallError(fn, kw) ==
  IF fn \notin TempFns
  THEN Exc("AttributeError", "NoSuchFunction", Empty, <<>>)
  ELSE IF ~Binds(TempSig(fn), kw)
       THEN Exc("TypeError", "BadArguments", Empty, <<>>)
       ELSE NoError

HTTPError == Exc("HTTPError", "RemoteFailure", Empty, <<>>)

\* One request sent by call() (temp.py lines 21-37) and how it ended.
Request(fn, ids, name, ok, results) ==
  [fn |-> fn, method |-> Method(fn), ids |-> ids, name |-> name, ok |-> ok,
   results |-> results]

\* The lists GET /contacts?query= may answer with.
SearchResults ==
  { r \in UNION { [1..n -> contacts] : n \in 0..MaxResults } :
      \A i, j \in DOMAIN r : i # j => r[i] # r[j] }

body == Body(tool_name, tool_args)
Running == pc = "run" /\ ip <= Len(body)
cur == body[ip]

\* a request of the company find-or-create step
IsCompanyRequest(c) == c.fn \in {"list_companies", "create_company"}

ExecuteTask ==
  /\ pc \in {"idle", "done"}
  /\ inv < MaxInvocations
  /\ inv' = inv + 1
  /\ pc' = "received"
  /\ tool_name' = ""
  /\ tool_args' = BadArgs
  /\ ip' = 0
  /\ locals' = NoLocals
  /\ calls' = <<>>
  /\ phases' = <<"RECEIVED">>
  /\ ret' = NoRet
  /\ journal' = IF tool_name = "log_job_for_person"
                THEN SelectSeq(calls, IsCompanyRequest)
                ELSE <<>>
  /\ UNCHANGED <<aside, contacts, nextContactId, companies>>

\* lines 142-150: the model proposes a function call, or the request fails
GenerateContent ==
  /\ pc = "received"
  /\ \/ /\ Raise(Exc("Exception", "ModelFailure", Empty, <<>>), phases)
        /\ UNCHANGED <<tool_name, tool_args>>
     \/ /\ \E name \in ProposedNames :
             \E a \in ArgChoices(name) :
               /\ tool_name' = name
               /\ tool_args' = a
        /\ pc' = "dispatch"
        /\ UNCHANGED <<ret, phases>>
  /\ UNCHANGED <<journal, aside, contacts, nextContactId, companies, inv, ip, locals, calls>>

\* line 155: getattr(alf, tool_name)
GetAttrError(name) ==
  IF name \notin AlfNamespace
  THEN Exc("AttributeError", "NoSuchTool", Empty, <<>>)
  ELSE NoError

\* line 156: tool_function(**tool_args), up to the first statement of the body
BindError(name, a) ==
  IF name \notin AlfFunctions
  THEN Exc("TypeError", "NotCallable", Empty, <<>>)
  ELSE IF ~Binds(AlfSig(name), DOMAIN a)
       THEN Exc("TypeError", "BadToolArguments", Empty, <<>>)
       ELSE NoError

\* Mutant: an unknown tool name sends the task back to the model.
Dispatch_retry ==
  /\ pc = "dispatch"
  /\ IF GetAttrError(tool_name) # NoError
     THEN pc' = "received" /\ UNCHANGED <<ip, ret, phases>>
     ELSE IF BindError(tool_name, tool_args) # NoError
          THEN Raise(BindError(tool_name, tool_args), phases) /\ UNCHANGED ip
          ELSE pc' = "run" /\ ip' = 1 /\ UNCHANGED <<ret, phases>>
  /\ UNCHANGED <<journal, aside, contacts, nextContactId, companies, inv, tool_name, tool_args, locals,
                 calls>>

Dispatch ==
  /\ pc = "dispatch"
  /\ IF GetAttrError(tool_name) # NoError
     THEN Raise(GetAttrError(tool_name), phases) /\ UNCHANGED ip
     ELSE IF BindError(tool_name, tool_args) # NoError
          THEN Raise(BindError(tool_name, tool_args), phases) /\ UNCHANGED ip
          ELSE pc' = "run" /\ ip' = 1 /\ UNCHANGED <<ret, phases>>
  /\ UNCHANGED <<journal, aside, contacts, nextContactId, companies, inv, tool_name, tool_args, locals,
                 calls>>

\* Mutant: a failed search request is sent again, up to three requests.
FindContactStep_retry ==
  /\ Running /\ cur.k = "find_contact"
  /\ LET ps == Enter(PhaseOf(cur.k)) IN
     \/ /\ calls' = Append(calls, Request(cur.fn, {}, cur.name, FALSE, <<>>))
        /\ IF Len(calls) < 2
           THEN phases' = ps /\ UNCHANGED <<ret, pc>>
           ELSE Raise(HTTPError, ps)
        /\ UNCHANGED <<ip, locals>>
     \/ \E results \in SearchResults :
          LET r == _find_contact_by_name(results, cur.name) IN
          /\ calls' = Append(calls, Request(cur.fn, {}, cur.name, TRUE, results))
          /\ IF r.err # NoError
             THEN Raise(r.err, ps) /\ UNCHANGED <<ip, locals>>
             ELSE /\ locals' = [locals EXCEPT ![cur.into] = r.contact]
                  /\ ip' = ip + 1
                  /\ phases' = ps
                  /\ UNCHANGED <<ret, pc>>
  /\ UNCHANGED <<journal, aside, contacts, nextContactId, companies, inv, tool_name, tool_args>>

\* contact = _find_contact_by_name(name)
FindContactStep ==
  /\ Running /\ cur.k = "find_contact"
  /\ LET ps == Enter(PhaseOf(cur.k)) IN
     \/ /\ calls' = Append(calls, Request(cur.fn, {}, cur.name, FALSE, <<>>))
        /\ Raise(HTTPError, ps)
        /\ UNCHANGED <<ip, locals>>
     \/ \E results \in SearchResults :
          LET r == _find_contact_by_name(results, cur.name) IN
          /\ calls' = Append(calls, Request(cur.fn, {}, cur.name, TRUE, results))
          /\ IF r.err # NoError
             THEN Raise(r.err, ps) /\ UNCHANGED <<ip, locals>>
             ELSE /\ locals' = [locals EXCEPT ![cur.into] = r.contact]
                  /\ ip' = ip + 1
                  /\ phases' = ps
                  /\ UNCHANGED <<ret, pc>>
  /\ UNCHANGED <<journal, aside, contacts, nextContactId, companies, inv, tool_name, tool_args>>

\* a check on the arguments that raises ValueError
ValidateStep ==
  /\ Running /\ cur.k = "validate"
  /\ IF cur.err # NoError
     THEN Raise(cur.err, phases) /\ UNCHANGED ip
     ELSE ip' = ip + 1 /\ phases' = Enter(PhaseOf(cur.k)) /\ UNCHANGED <<ret, pc>>
  /\ UNCHANGED <<journal, aside, contacts, nextContactId, companies, inv, tool_name, tool_args, locals,
                 calls>>

\* what a successful request does to the store
StoreEffect(fn, ids) ==
  /\ contacts' =
       IF fn = "delete_contact" THEN { c \in contacts : c.id \notin ids }
       ELSE IF fn = "create_contact"
            THEN contacts \cup
                 {[id |-> nextContactId, first_name |-> tool_args.first_name,
                   last_name |-> Empty]}
            ELSE contacts
  /\ nextContactId' = IF fn = "create_contact" THEN nextContactId + 1 ELSE nextContactId

\* the company this call created, if the step about to fail leaves one behind
CreatedCompany ==
  \E i \in DOMAIN calls : calls[i].fn = "create_company" /\ calls[i].ok

\* Mutant: a failing statement first deletes the company this call created.
ApiStep_rollback ==
  /\ Running /\ cur.k = "api"
  /\ LET ps == Enter(PhaseOf(cur.k))
         ids == { locals[v].id : v \in cur.cids }
         kept == IF CreatedCompany THEN SubSeq(companies, 1, Len(companies) - 1)
                 ELSE companies
     IN
     IF CallError(cur.fn, cur.kw) # NoError
     THEN /\ Raise(CallError(cur.fn, cur.kw), ps)
          /\ companies' = kept
          /\ UNCHANGED <<ip, calls, contacts, nextContactId>>
     ELSE \/ /\ calls' = Append(calls, Request(cur.fn, ids, Empty, FALSE, <<>>))
             /\ Raise(HTTPError, ps)
             /\ companies' = kept
             /\ UNCHANGED <<ip, contacts, nextContactId>>
          \/ /\ cur.fn = "create_contact" => nextContactId <= MaxContactId
             /\ calls' = Append(calls, Request(cur.fn, ids, Empty, TRUE, <<>>))
             /\ StoreEffect(cur.fn, ids)
             /\ ip' = ip + 1
             /\ phases' = ps
             /\ UNCHANGED <<ret, pc, companies>>
  /\ UNCHANGED <<journal, aside, inv, tool_name, tool_args, locals>>

\* monica_api.<fn>(...) as a statement of the running function
ApiStep ==
  /\ Running /\ cur.k = "api"
  /\ LET ps == Enter(PhaseOf(cur.k))
         ids == { locals[v].id : v \in cur.cids }
     IN
     IF CallError(cur.fn, cur.kw) # NoError
     THEN /\ Raise(CallError(cur.fn, cur.kw), ps)
          /\ UNCHANGED <<ip, calls, contacts, nextContactId>>
     ELSE \/ /\ calls' = Append(calls, Request(cur.fn, ids, Empty, FALSE, <<>>))
             /\ Raise(HTTPError, ps)
             /\ UNCHANGED <<ip, contacts, nextContactId>>
          \/ /\ cur.fn = "create_contact" => nextContactId <= MaxContactId
             /\ calls' = Append(calls, Request(cur.fn, ids, Empty, TRUE, <<>>))
             /\ StoreEffect(cur.fn, ids)
             /\ ip' = ip + 1
             /\ phases' = ps
             /\ UNCHANGED <<ret, pc>>
  /\ UNCHANGED <<journal, aside, companies, inv, tool_name, tool_args, locals>>

Listing(fn) ==
  CASE fn = "list_genders" -> Genders
    [] fn = "list_contact_field_types" -> ContactFieldTypes
    [] fn = "list_relationship_types" -> RelationshipTypes
    [] OTHER -> TagList

LookupId(fn, name) ==
  IF fn = "list_relationship_types"
  THEN _find_relationship_type_by_name(Listing(fn), name)
  ELSE MatchByName(Listing(fn), name)

NotFoundError(fn, name) ==
  CASE fn = "list_genders" -> Exc("ValueError", "GenderNotValid", name, <<>>)
    [] fn = "list_contact_field_types" -> Exc("ValueError", "MediumNotFound", name, <<>>)
    [] OTHER -> Exc("ValueError", "RelationshipTypeNotFound", name, <<>>)

\* a listing request followed by the search for a name in the listing
LookupStep ==
  /\ Running /\ cur.k = "lookup"
  /\ LET ps == Enter(PhaseOf(cur.k)) IN
     IF CallError(cur.fn, cur.kw) # NoError
     THEN Raise(CallError(cur.fn, cur.kw), ps) /\ UNCHANGED <<ip, calls, locals>>
     ELSE \/ /\ calls' = Append(calls, Request(cur.fn, {}, cur.name, FALSE, <<>>))
             /\ Raise(HTTPError, ps)
             /\ UNCHANGED <<ip, locals>>
          \/ /\ calls' = Append(calls, Request(cur.fn, {}, cur.name, TRUE, <<>>))
             /\ locals' = [locals EXCEPT !.found = LookupId(cur.fn, cur.name)]
             /\ IF LookupId(cur.fn, cur.name) # 0
                THEN ip' = ip + 1 /\ phases' = ps /\ UNCHANGED <<ret, pc>>
                ELSE IF cur.fn = "list_tags"
                     THEN \* untag_person line 351: return, not raise
                          ip' = Len(body) + 1 /\ phases' = ps /\ UNCHANGED <<ret, pc>>
                     ELSE Raise(NotFoundError(cur.fn, cur.name), ps) /\ UNCHANGED ip
  /\ UNCHANGED <<journal, aside, contacts, nextContactId, companies, inv, tool_name, tool_args>>

\* Mutant: the loop of lines 62-64 never matches, so every call creates.
CompanyListStep_never_matches ==
  /\ Running /\ cur.k = "company_list"
  /\ LET ps == Enter(PhaseOf(cur.k)) IN
     \/ /\ calls' = Append(calls, Request(cur.fn, {}, cur.name, FALSE, <<>>))
        /\ Raise(HTTPError, ps)
        /\ UNCHANGED <<ip, locals>>
     \/ /\ calls' = Append(calls, Request(cur.fn, {}, cur.name, TRUE, companies))
        /\ UNCHANGED locals /\ ip' = ip + 1
        /\ phases' = ps
        /\ UNCHANGED <<ret, pc>>
  /\ UNCHANGED <<journal, aside, contacts, nextContactId, companies, inv, tool_name, tool_args>>

\* _find_or_create_company lines 61-64
CompanyListStep ==
  /\ Running /\ cur.k = "company_list"
  /\ LET ps == Enter(PhaseOf(cur.k)) IN
     \/ /\ calls' = Append(calls, Request(cur.fn, {}, cur.name, FALSE, <<>>))
        /\ Raise(HTTPError, ps)
        /\ UNCHANGED <<ip, locals>>
     \/ /\ calls' = Append(calls, Request(cur.fn, {}, cur.name, TRUE, companies))
        /\ LET found == MatchByName(companies, cur.name) IN
           IF found # 0
           THEN locals' = [locals EXCEPT !.company = found] /\ ip' = ip + 2
           ELSE UNCHANGED locals /\ ip' = ip + 1
        /\ phases' = ps
        /\ UNCHANGED <<ret, pc>>
  /\ UNCHANGED <<journal, aside, contacts, nextContactId, companies, inv, tool_name, tool_args>>

\* _find_or_create_company line 66
CompanyCreateStep ==
  /\ Running /\ cur.k = "company_create"
  /\ LET ps == Enter(PhaseOf(cur.k)) IN
     \/ /\ calls' = Append(calls, Request(cur.fn, {}, cur.name, FALSE, <<>>))
        /\ Raise(HTTPError, ps)
        /\ UNCHANGED <<ip, locals, companies>>
     \/ /\ calls' = Append(calls, Request(cur.fn, {}, cur.name, TRUE, <<>>))
        /\ companies' = Append(companies, [id |-> Len(companies) + 1, name |-> cur.name])
        /\ locals' = [locals EXCEPT !.company = Len(companies) + 1]
        /\ ip' = ip + 1
        /\ phases' = ps
        /\ UNCHANGED <<ret, pc>>
  /\ UNCHANGED <<journal, aside, contacts, nextContactId, inv, tool_name, tool_args>>

\* lines 156-158: the function returned its result
ToolReturn ==
  /\ pc = "run" /\ ip > Len(body)
  /\ pc' = "summarize"
  /\ UNCHANGED <<journal, aside, contacts, nextContactId, companies, inv, tool_name, tool_args, ip, locals,
                 calls, phases, ret>>

\* lines 162-170: the model summarises the result, or the request fails
Summarize ==
  /\ pc = "summarize"
  /\ \/ Raise(Exc("Exception", "SummaryFailure", Empty, <<>>), phases)
     \/ /\ ret' = SummaryReturn
        /\ pc' = "done"
        /\ phases' = Append(phases, "COMPLETED")
  /\ UNCHANGED <<journal, aside, contacts, nextContactId, companies, inv, tool_name, tool_args, ip, locals,
                 calls>>

Next ==
  \/ ExecuteTask
  \/ GenerateContent
  \/ Dispatch
  \/ FindContactStep
  \/ ValidateStep
  \/ ApiStep
  \/ LookupStep
  \/ CompanyListStep
  \/ CompanyCreateStep
  \/ ToolReturn
  \/ Summarize

Spec == Init /\ [][Next]_vars

\* The steps of one execute_task call; starting a call is the caller's move.
Steps ==
  \/ GenerateContent
  \/ Dispatch
  \/ FindContactStep
  \/ ValidateStep
  \/ ApiStep
  \/ LookupStep
  \/ CompanyListStep
  \/ CompanyCreateStep
  \/ ToolReturn
  \/ Summarize

\* execute_task is straight-line synchronous code: a call that has begun
\* keeps executing its next statement.
LiveSpec == Init /\ [][Next]_vars /\ WF_vars(Steps)

\* ------------------- concurrent user sessions in _find_or_create_company
\* Each session of app.py holds its own orchestrator and executor; the
\* sessions share nothing but the store. A session's requests are atomic at
\* the store and interleave freely with those of the other sessions.
main_vars ==
  << contacts, nextContactId, inv, pc, tool_name, tool_args, ip, locals, calls, phases,
     ret, journal, orchestrator, turn_pc, response_text, task_prompt, display_text,
     delegated, apart >>

\* a session enters _find_or_create_company(company_name)
SessionCall(s) ==
  /\ sessions[s].pc \in {"idle", "done", "failed"}
  /\ sessions[s].runs < MaxSessionCalls
  /\ \E name \in CompanyNames :
       sessions' = [sessions EXCEPT ![s] =
                      [pc |-> "list", name |-> name, seen |-> <<>>, company |-> 0,
                       runs |-> sessions[s].runs + 1]]
  /\ UNCHANGED <<companies, main_vars>>

\* lines 61-64: list the companies and look for the name
SessionList(s) ==
  /\ sessions[s].pc = "list"
  /\ \/ sessions' = [sessions EXCEPT ![s].pc = "failed"]
     \/ LET found == MatchByName(companies, sessions[s].name) IN
        sessions' = [sessions EXCEPT ![s].seen = companies,
                                     ![s].company = found,
                                     ![s].pc = IF found # 0 THEN "done" ELSE "create"]
  /\ UNCHANGED <<companies, main_vars>>

\* Mutant: the creation is skipped when a company of that name exists by then.
SessionCreate_dedup(s) ==
  /\ sessions[s].pc = "create"
  /\ \/ sessions' = [sessions EXCEPT ![s].pc = "failed"] /\ UNCHANGED companies
     \/ LET found == MatchByName(companies, sessions[s].name) IN
        IF found # 0
        THEN /\ UNCHANGED companies
             /\ sessions' = [sessions EXCEPT ![s].company = found, ![s].pc = "done"]
        ELSE /\ companies' =
                  Append(companies, [id |-> Len(companies) + 1, name |-> sessions[s].name])
             /\ sessions' = [sessions EXCEPT ![s].company = Len(companies) + 1,
                                              ![s].pc = "done"]
  /\ UNCHANGED main_vars

\* line 66: create the company
SessionCreate(s) ==
  /\ sessions[s].pc = "create"
  /\ \/ sessions' = [sessions EXCEPT ![s].pc = "failed"] /\ UNCHANGED companies
     \/ /\ companies' =
             Append(companies, [id |-> Len(companies) + 1, name |-> sessions[s].name])
        /\ sessions' = [sessions EXCEPT ![s].company = Len(companies) + 1,
                                         ![s].pc = "done"]
  /\ UNCHANGED main_vars

ConcNext ==
  \/ \E s \in Sessions : SessionCall(s)
  \/ \E s \in Sessions : SessionList(s)
  \/ \E s \in Sessions : SessionCreate(s)

ConcSpec == Init /\ [][ConcNext]_vars

\* ------------------------------- process_user_turn (main.py, bff_bot.py)
\* The two tags are single symbols of a text; no text holds a part of a tag.
OpenTag == "<commit_task>"
CloseTag == "</commit_task>"

TurnAlphabet == {"x", " ", OpenTag, CloseTag}

\* the texts the conversational model may answer with
TurnTexts == UNION { [1..n -> TurnAlphabet] : n \in 0..MaxTurnLen }

\* the modules that define process_user_turn
Orchestrators == {"main", "bff_bot"}

\* str.find(sep) + 1: where the first occurrence of sep starts, 0 if none
Find(s, sep) ==
  LET at == { i \in 1..(Len(s) - Len(sep) + 1) : SubSeq(s, i, i + Len(sep) - 1) = sep }
  IN  IF at = {} THEN 0 ELSE CHOOSE i \in at : \A j \in at : i <= j

\* s.split(sep)[0]
Split0(s, sep) == IF Find(s, sep) = 0 THEN s ELSE SubSeq(s, 1, Find(s, sep) - 1)

\* s.split(sep)[1], for a text that contains sep
Split1(s, sep) == Split0(SubSeq(s, Find(s, sep) + Len(sep), Len(s)), sep)

\* Mutant: the instruction is taken from behind the last opening tag.
ExtractTaskPrompt_last_pair(module, text) ==
  LET last == CHOOSE i \in DOMAIN text :
                /\ text[i] = OpenTag
                /\ \A j \in DOMAIN text : j > i => text[j] # OpenTag
      between == Split0(SubSeq(text, last + 1, Len(text)), <<CloseTag>>)
  IN  IF module = "main" THEN Strip(between) ELSE between

\* main.py line 66 strips the instruction, bff_bot.py line 75 does not
ExtractTaskPrompt(module, text) ==
  LET between == Split0(Split1(text, <<OpenTag>>), <<CloseTag>>)
  IN  IF module = "main" THEN Strip(between) ELSE between

\* main.py line 67, bff_bot.py line 76
ExtractDisplayText(text) == Strip(Split0(text, <<OpenTag>>))

turn_vars == << turn_pc, response_text, task_prompt, display_text, delegated >>

rest_vars ==
  << contacts, nextContactId, companies, inv, pc, tool_name, tool_args, ip, locals, calls,
     phases, ret, journal, sessions, orchestrator, apart >>

\* the conversational model answers the user's input, or the request fails
SendMessage ==
  /\ turn_pc = "idle"
  /\ \/ /\ turn_pc' = "raised"
        /\ response_text' = Empty
     \/ /\ turn_pc' = "responded"
        /\ response_text' \in TurnTexts
  /\ UNCHANGED <<task_prompt, display_text, delegated, rest_vars>>

\* the test for the opening tag and the two split expressions
ExtractStep ==
  /\ turn_pc = "responded"
  /\ IF Contains(response_text, <<OpenTag>>)
     THEN /\ task_prompt' = ExtractTaskPrompt(orchestrator, response_text)
          /\ display_text' = ExtractDisplayText(response_text)
          /\ turn_pc' = "delegating"
     ELSE /\ display_text' = response_text
          /\ turn_pc' = "returned"
          /\ UNCHANGED task_prompt
  /\ UNCHANGED <<response_text, delegated, rest_vars>>

\* self.data_agent.execute_task(task_prompt), which returns a text
DelegateTask ==
  /\ turn_pc = "delegating"
  /\ delegated' = Append(delegated, task_prompt)
  /\ turn_pc' = "delegated"
  /\ UNCHANGED <<response_text, task_prompt, display_text, rest_vars>>

\* the model words the result for the user, or the request fails
FinalResponse ==
  /\ turn_pc = "delegated"
  /\ turn_pc' \in {"returned", "raised"}
  /\ UNCHANGED <<response_text, task_prompt, display_text, delegated, rest_vars>>

\* the turn is over and the caller's loop waits for the next user input
NextTurn ==
  /\ turn_pc \in {"returned", "raised"}
  /\ turn_pc' = "idle"
  /\ response_text' = Empty
  /\ task_prompt' = None
  /\ display_text' = Empty
  /\ delegated' = <<>>
  /\ UNCHANGED rest_vars

TurnNext ==
  \/ NextTurn
  \/ SendMessage
  \/ ExtractStep
  \/ DelegateTask
  \/ FinalResponse

TurnInit == InitState /\ orchestrator \in Orchestrators

TurnSpec == TurnInit /\ [][TurnNext]_vars

\* ----------------------------------- call() (temp.py, monica_api_caller.py)
\* everything the machines above own
settled ==
  << contacts, nextContactId, companies, inv, pc, tool_name, tool_args, ip, locals, calls,
     phases, ret, journal, sessions, orchestrator, turn_vars, person, editors, ui >>

Methods == {"GET", "POST", "PUT", "DELETE"}

\* the final status codes a response may carry
Statuses == {200, 201, 204, 300, 304, 400, 401, 404, 422, 500, 503}

\* the response body: a JSON object with or without the key "data", or text
\* that is not JSON
Bodies == {"object_with_data", "object_without_data", "not_json"}

\* requests.Response.raise_for_status raises for 4xx and 5xx
RaisesForStatus(status) == 400 <= status /\ status < 600

\* lines 25-30 of temp.py: the outcome of call() for a response
call(status, content) ==
  IF RaisesForStatus(status)
  THEN [raised |-> "HTTPError", payload |-> "none"]
  ELSE IF status = 204
       THEN [raised |-> "none", payload |-> "None"]
       ELSE IF content = "not_json"
            THEN [raised |-> "JSONDecodeError", payload |-> "none"]
            ELSE [raised |-> "none",
                  payload |-> IF content = "object_with_data" THEN "data" ELSE "body"]

\* a function of the API module calls call(endpoint, method, ...)
CallBegin ==
  /\ transport.pc \in {"idle", "returned"}
  /\ \E m \in Methods : transport' = [IdleTransport EXCEPT !.pc = "sent", !.method = m]
  /\ UNCHANGED settled

\* requests.request: the store answers, or no response arrives
CallRequest ==
  /\ transport.pc = "sent"
  /\ \/ transport' = [transport EXCEPT !.pc = "returned", !.raised = "ConnectionError"]
     \/ \E st \in Statuses, b \in Bodies :
          transport' = [transport EXCEPT !.pc = "responded", !.status = st, !.body = b]
  /\ UNCHANGED settled

\* raise_for_status, the 204 test and the data lookup; both except clauses
\* re-raise
CallReturn ==
  /\ transport.pc = "responded"
  /\ transport' = [transport EXCEPT
                     !.pc = "returned",
                     !.raised = call(transport.status, transport.body).raised,
                     !.payload = call(transport.status, transport.body).payload]
  /\ UNCHANGED settled

CallNext ==
  \/ CallBegin
  \/ CallRequest
  \/ CallReturn

CallSpec == Init /\ [][CallNext]_vars

\* ------------------------- update_contact (temp.py, monica_api_caller.py)
\* everything but the contact and its callers
beside ==
  << contacts, nextContactId, companies, inv, pc, tool_name, tool_args, ip, locals, calls,
     phases, ret, journal, sessions, orchestrator, turn_vars, transport, ui >>

\* dict.update
DictUpdate(d, u) == [k \in DictKeys |-> IF u[k] # Absent THEN u[k] ELSE d[k]]

\* a dict with the given value under one key
Single(key, value) == [EmptyDict EXCEPT ![key] = value]

\* obj.get('is_known', False) of the object under a nested key, {} when the
\* key is absent; the object is represented by its is_known value
IsKnown(obj) == IF obj = "True" THEN "True" ELSE "False"

\* the truth value of payload.get(key): an object with a key is true
Truthy(obj) == obj # Absent

\* temp.py lines 107-113
fields_to_remove ==
  { "id", "object", "account", "last_activity_date", "created_at", "updated_at",
    "birthdate", "deceased_date", "information", "contact_information", "reminders",
    "tasks", "activities", "relationships", "gifts", "pets", "addresses", "notes" }

\* temp.py lines 94-113: the PUT payload built from the fetched contact and
\* the updates
UpdatePayload(current_data, updates) ==
  LET copied ==
        [current_data EXCEPT
           !["is_birthdate_known"] = IsKnown(current_data["birthdate"]),
           !["is_deceased"] = IF @ = Absent THEN "False" ELSE @,
           !["is_deceased_date_known"] = IsKnown(current_data["deceased_date"])]
      updated == DictUpdate(copied, updates)
      flagged ==
        [updated EXCEPT
           !["is_birthdate_known"] =
              IF Truthy(updated["birthdate"]) THEN IsKnown(updated["birthdate"]) ELSE @,
           !["is_deceased_date_known"] =
              IF Truthy(updated["deceased_date"])
              THEN IsKnown(updated["deceased_date"]) ELSE @]
  IN [k \in DictKeys |-> IF k \in fields_to_remove THEN Absent ELSE flagged[k]]

\* temp.py lines 87-88: the POST payload of create_contact
CreatePayload(first_name, kwargs) ==
  DictUpdate([EmptyDict EXCEPT !["first_name"] = first_name,
                               !["is_birthdate_known"] = "False",
                               !["is_deceased"] = "False",
                               !["is_deceased_date_known"] = "False"],
             kwargs)

\* set_contact_occupation (temp.py line 124): the updates it
\* hands to update_contact
set_contact_occupation(job_title, company_name) ==
  [EmptyDict EXCEPT !["work_job_title"] = job_title,
                    !["work_company_name"] = company_name]

\* the first names and keyword arguments create_contact is called with
FirstNames == {"Test"}
CreateKwargs == {EmptyDict, Single("is_birthdate_known", "True")}

\* the updates update_contact is called with (test.py lines 54 and 57)
UpdateChoices ==
  { Single("nickname", "Tester"),
    set_contact_occupation("API Tester", "Test Corp"),
    Single("is_birthdate_known", "True") }

\* the contact object GET /contacts/:id answers with: the flat fields under
\* the names the store accepts them, and the two dates as objects at the
\* top level or not at all (temp.py lines 96 and 98 read them with a default)
Response(p) ==
  [k \in DictKeys |->
     IF k \in CoreFields THEN p.fields[k]
     ELSE IF k = "id" THEN "1"
     ELSE IF p.shape # "top_level" THEN Absent
     ELSE IF k = "birthdate" THEN p.fields["is_birthdate_known"]
     ELSE p.fields["is_deceased_date_known"]]

\* the store keeps the flat fields a POST or PUT payload carries
Stored(fields, payload) ==
  [k \in DictKeys |->
     IF k \notin CoreFields THEN Absent
     ELSE IF payload[k] # Absent THEN payload[k]
     ELSE fields[k]]

\* create_contact(first_name, **kwargs)
CreateContact(e) ==
  /\ ~person.exists
  /\ editors[e].pc = "idle"
  /\ \E fn \in FirstNames, kw \in CreateKwargs, sh \in {"nested", "top_level"} :
       /\ person' = [exists |-> TRUE, shape |-> sh, version |-> 0, edits |-> 0,
                     fields |-> Stored([k \in DictKeys |-> "None"], CreatePayload(fn, kw))]
       /\ editors' = [editors EXCEPT ![e] = [@ EXCEPT !.pc = "created", !.op = "create",
                                                      !.first_name = fn]]
  /\ UNCHANGED beside

\* get_contact(contact_id) after a create_contact or an update_contact
GetContact(e) ==
  /\ person.exists
  /\ editors[e].pc \in {"created", "updated"}
  /\ editors' = [editors EXCEPT ![e] = [@ EXCEPT !.pc = "got", !.got = Response(person),
                                                 !.got_at = person.version]]
  /\ UNCHANGED << person, beside >>

\* update_contact line 93: current_data = get_contact(contact_id); the
\* request may fail, and then update_contact raises
UpdateFetch(e) ==
  /\ person.exists
  /\ editors[e].pc \in {"idle", "created", "got", "failed"}
  /\ person.edits < MaxEdits
  /\ person' = [person EXCEPT !.edits = @ + 1]
  /\ \E u \in UpdateChoices :
       \/ editors' = [editors EXCEPT ![e] = [IdleEditor EXCEPT
                                              !.pc = "fetched", !.op = "update",
                                              !.updates = u,
                                              !.current_data = Response(person),
                                              !.seen = person.version]]
       \/ editors' = [editors EXCEPT ![e] = [IdleEditor EXCEPT
                                              !.pc = "failed", !.op = "update"]]
  /\ UNCHANGED beside

\* update_contact lines 94-115: the payload is built and sent with PUT; the
\* request may fail
UpdatePut(e) ==
  /\ editors[e].pc = "fetched"
  /\ \/ /\ person' = [person EXCEPT
                         !.fields = Stored(@, UpdatePayload(editors[e].current_data,
                                                            editors[e].updates)),
                         !.version = @ + 1]
        /\ editors' = [editors EXCEPT ![e] = [@ EXCEPT !.pc = "updated"]]
     \/ /\ editors' = [editors EXCEPT ![e] = [IdleEditor EXCEPT
                                               !.pc = "failed", !.op = "update"]]
        /\ UNCHANGED person
  /\ UNCHANGED beside

EditNext ==
  \/ \E e \in Editors : CreateContact(e)
  \/ \E e \in Editors : GetContact(e)
  \/ \E e \in Editors : UpdateFetch(e)
  \/ \E e \in Editors : UpdatePut(e)

EditSpec == Init /\ [][EditNext]_vars

\* ----------------------------------------------- chat_interface (app.py)
\* everything but the browser session
backstage ==
  << contacts, nextContactId, companies, inv, pc, tool_name, tool_args, ip, locals, calls,
     phases, ret, journal, sessions, orchestrator, turn_vars, transport, person, editors >>

\* what the user submits in the textbox
UserInputs == {Empty, <<" ">>, <<"x">>, <<" ", "x", " ">>}

\* how process_user_turn (main.py lines 57-91) ends: with a reply and the
\* joined log lines of a delegated task, with a reply and None, or by raising
TurnOutcomes == {"reply_with_logs", "reply_without_logs", "raised"}

BotMessage == <<"o", "k">>

\* line 37: the log entry of a turn; the text of logs is the turn's own
LogEntry(user_input, n) == [user |-> user_input, logs |-> n]

\* lines 18-41 and the wiring of lines 70-74: the handler reads the textbox,
\* the Chatbot and the two states, and its four results are written to the
\* Chatbot, the orchestrator state, the log Textbox and the textbox; when it
\* raises, no component is written
chat_interface(user_input, outcome) ==
  LET history == ui.chatbot
      orchestrator_state == ui.orchestrator
      logs_history == ui.logs_state
      submitted == [ui EXCEPT !.user_input = user_input, !.events = @ + 1]
  IN IF Strip(user_input) = Empty
     THEN [submitted EXCEPT !.ended = "blank",
                            !.chatbot = history,
                            !.orchestrator = orchestrator_state,
                            !.log_output = logs_history]
     ELSE LET fresh == orchestrator_state = 0
              made == IF fresh THEN ui.created + 1 ELSE ui.created
              state == IF fresh THEN made ELSE orchestrator_state
              called == [submitted EXCEPT !.created = made, !.called = @ + 1]
          IN IF outcome = "raised"
             THEN [called EXCEPT !.ended = "raised"]
             ELSE [called EXCEPT
                     !.ended = "returned",
                     !.chatbot = Append(history, <<user_input, BotMessage>>),
                     !.orchestrator = state,
                     !.log_output =
                        IF outcome = "reply_with_logs"
                        THEN << LogEntry(user_input, ui.events + 1) >> \o logs_history
                        ELSE logs_history]

\* the user submits the textbox
Submit ==
  /\ ui.events < MaxEvents
  /\ \E user_input \in UserInputs, outcome \in TurnOutcomes :
       ui' = chat_interface(user_input, outcome)
  /\ UNCHANGED backstage

\* the page is loaded again: a new session with fresh components and states
Reload ==
  /\ ui.events > 0
  /\ ui' = InitialUi
  /\ UNCHANGED backstage

UiNext ==
  \/ Submit
  \/ Reload

UiSpec == Init /\ [][UiNext]_vars

\* ================================================================= claims
Returned == pc = "done"

\* The agent-level operations that take a person name.
PersonOps ==
  { "forget_person", "remember_something_about", "log_call_with", "set_relationship",
    "create_task_for", "set_reminder_for", "track_debt", "log_gift",
    "log_job_for_person", "tag_person", "untag_person", "start_conversation_with" }

\* Person-scoped operations with one contact and no other entity to resolve.
SinglePersonOps ==
  { "forget_person", "remember_something_about", "log_call_with", "create_task_for",
    "set_reminder_for", "track_debt", "log_gift", "tag_person" }

ResolverErrors ==
  { "NoContactFound", "MultipleContactsFound", "RelationshipTypeNotFound",
    "MediumNotFound" }

ValidationErrors == { "OweYourself", "OnePartyMustBeMe", "BadToolArguments" }

NoMutatingCall == \A i \in DOMAIN calls : ~Mutating(calls[i])

\* request i is the search of _find_contact_by_name and it was answered
IsSearch(i) ==
  /\ calls[i].fn = "list_contacts"
  /\ calls[i].ok
  /\ tool_name # "find_people"

Containing(results, query) ==
  { i \in DOMAIN results : Contains(Lower(FullName(results[i])), Lower(query)) }

\* C1: every execute_task call that ends has returned a value to its caller
\* (the summary or the apology text); no exception leaves execute_task.
C1_NoExceptionEscapes ==
  /\ ret.origin # "escaped"
  /\ Returned => ret.origin \in {"summary", "apology"}

C1_Witness ==
  /\ Returned
  /\ ret.origin = "apology"
  /\ ret.e.kind \in {"NoSuchFunction", "BadArguments"}

\* a Result Envelope: {status: success, data} or {status: error, message}
IsEnvelope(v) ==
  \/ DOMAIN v = {"status", "data"} /\ v.status = "success"
  \/ DOMAIN v = {"status", "message"} /\ v.status = "error"

\* the store operation completed: the function ran to its end and every
\* request it sent was answered with success
StoreOperationCompleted ==
  /\ ip > Len(body)
  /\ \A i \in DOMAIN calls : calls[i].ok

\* C2: every value execute_task returns is a Result Envelope, with status
\* success exactly when the store operation completed.
C2_ReturnsEnvelope ==
  Returned =>
    /\ IsEnvelope(ret)
    /\ (ret.status = "success") <=> StoreOperationCompleted

\* C3: when a person-name operation ends with a resolver or validation
\* error, no mutating request was sent to the store during that call.
C3_NoMutationBeforeResolution ==
  ( /\ Returned
    /\ tool_name \in PersonOps
    /\ ret.origin = "apology"
    /\ ret.e.kind \in ResolverErrors \cup ValidationErrors )
  => NoMutatingCall

C3_Witness ==
  /\ Returned
  /\ tool_name = "log_job_for_person"
  /\ ret.e.kind = "NoContactFound"
  /\ calls # <<>>

\* every request was answered with success and the model produced its summary
HealthyRun ==
  /\ \A i \in DOMAIN calls : calls[i].ok
  /\ ret.e.kind \notin {"ModelFailure", "SummaryFailure"}

\* C4: when the name search returned exactly one candidate (and the store and
\* the model did not fail), a person-scoped operation returns success and its
\* mutating request carries that candidate's id and no other.
C4_SingleCandidateSucceeds ==
  ( /\ Returned
    /\ tool_name \in SinglePersonOps
    /\ HealthyRun
    /\ calls # <<>>
    /\ IsSearch(1)
    /\ Len(calls[1].results) = 1 )
  => /\ ret.origin = "summary"
     /\ \E i \in DOMAIN calls : Mutating(calls[i])
     /\ \A i \in DOMAIN calls :
          Mutating(calls[i]) => calls[i].ids = {calls[1].results[1].id}

\* the search answered with two or more candidates
Ambiguous(i) == IsSearch(i) /\ Len(calls[i].results) >= 2

\* the resolver failed on request i with the multiple-contacts error that
\* lists every candidate, bound no contact from it and nothing was mutated
FailedListingAll(i) ==
  /\ Returned
  /\ i = Len(calls)
  /\ ret.origin = "apology"
  /\ ret.e.kind = "MultipleContactsFound"
  /\ ret.e.name = calls[i].name
  /\ ret.e.found = FoundNames(calls[i].results)
  /\ NoMutatingCall

C5_WitnessSeveral ==
  \E i \in DOMAIN calls :
    /\ Ambiguous(i)
    /\ Cardinality(Containing(calls[i].results, calls[i].name)) >= 2
    /\ FailedListingAll(i)

Rank(p) ==
  CASE p = "RECEIVED" -> 1
    [] p = "RESOLVING_ENTITIES" -> 2
    [] p = "VALIDATED" -> 3
    [] p = "EXECUTING" -> 4
    [] OTHER -> 5

\* the order track_debt follows: it validates the parties, then resolves
CodeRank(p) ==
  IF tool_name = "track_debt" /\ p = "RESOLVING_ENTITIES" THEN 3
  ELSE IF tool_name = "track_debt" /\ p = "VALIDATED" THEN 2
       ELSE Rank(p)

\* once a call has returned, the only step is the caller beginning a new call
NothingAfterReturn == Returned => (pc' = "received" /\ calls' = <<>>)

\* C7 as claimed: the phases of one call are entered only in the order
\* RECEIVED, RESOLVING_ENTITIES, VALIDATED, EXECUTING, COMPLETED|FAILED, and
\* a returned call sends no further request.
C7_PhaseOrder ==
  /\ [](\A i, j \in DOMAIN phases : i < j => Rank(phases[i]) < Rank(phases[j]))
  /\ [][NothingAfterReturn]_vars

\* C7 amended: the same order, except that track_debt validates its parties
\* before it resolves the contact; a returned call sends no further request.
C7_PhaseOrderOfCode ==
  /\ [](\A i, j \in DOMAIN phases : i < j => CodeRank(phases[i]) < CodeRank(phases[j]))
  /\ [][NothingAfterReturn]_vars

C7_Witness ==
  /\ Returned
  /\ tool_name = "track_debt"
  /\ phases = <<"RECEIVED", "VALIDATED", "RESOLVING_ENTITIES", "EXECUTING", "FAILED">>

\* C8: every execute_task call that has begun eventually returns.
C8_Terminates == (pc = "received") ~> Returned

C8_Witness ==
  /\ Returned
  /\ ret.e.kind = "RemoteFailure"
  /\ Len(calls) >= 2

\* C9: a proposed name that is not among the advertised tools ends the call
\* in failure and without any request to the store.
C9_UnknownOperationFails ==
  (Returned /\ ret.e.kind # "ModelFailure" /\ tool_name \notin Tools)
  => /\ ret.origin = "apology"
     /\ calls = <<>>

TrackDebtCalled ==
  /\ Returned
  /\ tool_name = "track_debt"
  /\ BindError(tool_name, tool_args) = NoError

\* C10 as claimed: unless exactly one party is the token "me", track_debt
\* fails with a validation error, a different one for both-me and for
\* neither-me, and sends no request.
C10_TrackDebtLiteralMe ==
  TrackDebtCalled =>
    LET owes == tool_args.person_who_owes_money = Me
        owed == tool_args.person_who_is_owed_money = Me
    IN  /\ (owes /\ owed) => (ret.e.kind = "OweYourself" /\ calls = <<>>)
        /\ (~owes /\ ~owed) => (ret.e.kind = "OnePartyMustBeMe" /\ calls = <<>>)

\* C10 amended: the same with "me" compared ignoring case.
C10_TrackDebtValidation ==
  TrackDebtCalled =>
    LET owes == Lower(tool_args.person_who_owes_money) = Me
        owed == Lower(tool_args.person_who_is_owed_money) = Me
    IN  /\ (owes /\ owed) =>
             (ret.e.type = "ValueError" /\ ret.e.kind = "OweYourself" /\ calls = <<>>)
        /\ (~owes /\ ~owed) =>
             (ret.e.type = "ValueError" /\ ret.e.kind = "OnePartyMustBeMe" /\ calls = <<>>)

C10_Witness ==
  /\ TrackDebtCalled
  /\ tool_args.person_who_owes_money = MeUpper
  /\ tool_args.person_who_is_owed_money = Me
  /\ ret.e.kind = "OweYourself"

\* the requests of this call that create a debt
DebtRequests == { i \in DOMAIN calls : calls[i].fn = "create_debt" }

\* C11: when exactly one party of track_debt is "me" and the search for the
\* other party returned exactly one contact (and neither the store nor the
\* model failed), the call returns success and has sent exactly one
\* debt-creating request, which carries that contact's id.
C11_TrackDebtCreatesDebt ==
  ( /\ TrackDebtCalled
    /\ HealthyRun
    /\ (tool_args.person_who_owes_money = Me) # (tool_args.person_who_is_owed_money = Me)
    /\ calls # <<>>
    /\ IsSearch(1)
    /\ Len(calls[1].results) = 1 )
  => /\ ret.origin = "summary"
     /\ Cardinality(DebtRequests) = 1
     /\ \A i \in DebtRequests : calls[i].ok /\ calls[i].ids = {calls[1].results[1].id}

\* the requests of this call that belong to the company find-or-create step
CompanyRequests ==
  { i \in DOMAIN calls : calls[i].fn \in {"list_companies", "create_company"} }

\* C12: in log_job_for_person no company request (list or create) is sent
\* unless the contact has been resolved; a call that ended with zero or
\* several candidates has sent none.
C12_NoCompanyStepWithoutContact ==
  tool_name = "log_job_for_person" =>
    /\ CompanyRequests # {} => locals.contact # NoContact
    /\ (Returned /\ ret.e.kind \in {"NoContactFound", "MultipleContactsFound"})
         => CompanyRequests = {}

C12_Witness ==
  /\ Returned
  /\ tool_name = "log_job_for_person"
  /\ ret.e.kind = "MultipleContactsFound"
  /\ Len(calls) = 1
  /\ CompanyRequests = {}

\* this log_job_for_person call created the company and then stopped at its
\* final statement, the occupation request
FailedAfterCreatingCompany ==
  /\ Returned
  /\ tool_name = "log_job_for_person"
  /\ CreatedCompany
  /\ ip = Len(body)
  /\ ret.e # NoError

\* C13: when log_job_for_person created the company in this call and its
\* final occupation step then failed, the call ends in failure, the created
\* company is still in the store, and the company creation is the last
\* request of the call: nothing is deleted or compensated.
C13_NoRollbackOfCompany ==
  FailedAfterCreatingCompany =>
    /\ ret.origin = "apology"
    /\ companies # <<>>
    /\ locals.company = Len(companies)
    /\ companies[Len(companies)].name = tool_args.company_name
    /\ \A i \in DOMAIN calls : calls[i].method # "DELETE"
    /\ calls[Len(calls)].fn \in {"create_company", "create_occupation"}

C13_Witness ==
  /\ FailedAfterCreatingCompany
  /\ ret.e.kind = "NoSuchFunction"
  /\ Len(calls) = 3
  /\ companies = << [id |-> 1, name |-> tool_args.company_name] >>

\* a company of that name, ignoring case, is in the listing
NameListed(listing, name) ==
  \E j \in DOMAIN listing : Lower(listing[j].name) = Lower(name)

\* the company-create requests among the requests in `reqs`
Creates(reqs) == { k \in DOMAIN reqs : reqs[k].fn = "create_company" }

\* the call before this one and this one are log_job_for_person calls with
\* the same company name, request i being this call's company listing; no
\* company of that name was in the store before the first call, the store
\* answered every company request, and this call has returned
TwoJobCalls(i) ==
  /\ journal # <<>>
  /\ ~NameListed(journal[1].results, journal[1].name)
  /\ \A k \in DOMAIN journal : journal[k].ok
  /\ tool_name = "log_job_for_person"
  /\ Returned
  /\ calls[i].fn = "list_companies"
  /\ calls[i].name = journal[1].name
  /\ \A k \in CompanyRequests : calls[k].ok

\* C14 as claimed: both calls issue a company-create request.
C14_TwoCreateCalls ==
  \A i \in DOMAIN calls :
    TwoJobCalls(i) => (Creates(journal) # {} /\ Creates(calls) # {})

\* C14 amended: the first call issues exactly one company-create request and
\* the second none: its listing holds the company the first call created.
C14_SecondCallFindsCompany ==
  \A i \in DOMAIN calls :
    TwoJobCalls(i) =>
      /\ Cardinality(Creates(journal)) = 1
      /\ Creates(calls) = {}
      /\ NameListed(calls[i].results, calls[i].name)

C14_Witness ==
  \E i \in DOMAIN calls :
    /\ TwoJobCalls(i)
    /\ calls[i].results = << [id |-> 1, name |-> journal[1].name] >>
    /\ locals.company = 1

\* the company-create requests of this call
CreateRequests == { j \in DOMAIN calls : calls[j].fn = "create_company" }

\* the company step of the running function is over
CompanyStepOver == ~(Running /\ cur.k = "company_create")

\* C15: after the company list is answered, _find_or_create_company returns
\* a listed company whose name equals the argument ignoring case and sends no
\* create request when there is one; when there is none it sends exactly one
\* create request, with that name, and returns the created company. A create
\* request is sent only after a listing without such a company.
C15_FindOrCreateCompany ==
  /\ \A i \in DOMAIN calls :
        (calls[i].fn = "list_companies" /\ calls[i].ok) =>
          IF NameListed(calls[i].results, calls[i].name)
          THEN /\ CreateRequests = {}
               /\ \E k \in DOMAIN calls[i].results :
                    /\ calls[i].results[k].id = locals.company
                    /\ Lower(calls[i].results[k].name) = Lower(calls[i].name)
          ELSE CompanyStepOver =>
                 /\ CreateRequests = {i + 1}
                 /\ calls[i + 1].name = calls[i].name
                 /\ calls[i + 1].ok =>
                      /\ locals.company \in DOMAIN companies
                      /\ locals.company \notin DOMAIN calls[i].results
                      /\ companies[locals.company] =
                           [id |-> locals.company, name |-> calls[i].name]
  /\ \A j \in CreateRequests :
        /\ j > 1
        /\ calls[j - 1].fn = "list_companies"
        /\ calls[j - 1].ok
        /\ ~NameListed(calls[j - 1].results, calls[j].name)

\* found under a name that differs in case
C15_Witness ==
  /\ tool_name = "_find_or_create_company"
  /\ pc = "summarize"
  /\ Len(calls) = 1
  /\ calls[1].name = AcmeLower
  /\ calls[1].results = << [id |-> 1, name |-> Acme] >>
  /\ locals.company = 1

\* not listed, hence created
C15_WitnessCreated ==
  /\ tool_name = "_find_or_create_company"
  /\ pc = "summarize"
  /\ Len(calls) = 2
  /\ calls[1].results = <<>>
  /\ calls[2].fn = "create_company"
  /\ companies = << [id |-> 1, name |-> calls[1].name] >>

\* session s has returned a company it created after a listing without one
CreatedUnlisted(s) ==
  /\ sessions[s].pc = "done"
  /\ ~NameListed(sessions[s].seen, sessions[s].name)

\* the companies in the store that carry the name
Named(name) == { k \in DOMAIN companies : companies[k].name = name }

\* C16: when two sessions resolve the same new company name and both list
\* the companies before either creates, both create: the store then holds
\* two companies with that name, and each session returns its own.
C16_ConcurrentDuplicates ==
  \A s, t \in Sessions :
    ( /\ s # t
      /\ sessions[s].name = sessions[t].name
      /\ CreatedUnlisted(s)
      /\ CreatedUnlisted(t) )
    => /\ Cardinality(Named(sessions[s].name)) >= 2
       /\ sessions[s].company # sessions[t].company
       /\ {sessions[s].company, sessions[t].company} \subseteq Named(sessions[s].name)

C16_Witness ==
  /\ CreatedUnlisted(1)
  /\ CreatedUnlisted(2)
  /\ sessions[1].seen = <<>>
  /\ sessions[2].seen = <<>>
  /\ companies = << [id |-> 1, name |-> Acme], [id |-> 2, name |-> Acme] >>

\* where the tags stand in the response
OpenAt == { i \in DOMAIN response_text : response_text[i] = OpenTag }
CloseAt == { i \in DOMAIN response_text : response_text[i] = CloseTag }

FirstOpen == CHOOSE i \in OpenAt : \A j \in OpenAt : i <= j
FirstClose == CHOOSE i \in CloseAt : \A j \in CloseAt : i <= j

\* one opening tag, one closing tag, in this order
OnePair ==
  /\ Cardinality(OpenAt) = 1
  /\ Cardinality(CloseAt) = 1
  /\ FirstOpen < FirstClose

\* extraction is over for this turn
Extracted == turn_pc \in {"delegating", "delegated", "returned"}

\* C17: for a response without opening tag the display text is the whole
\* response, there is no task text and execute_task is not called; for a
\* response with one well-formed pair the display text is the trimmed text
\* before the opening tag and the task text the trimmed text between the tags.
C17_Extraction ==
  Extracted =>
    /\ OpenAt = {} =>
         /\ display_text = response_text
         /\ task_prompt = None
         /\ delegated = <<>>
    /\ OnePair =>
         /\ display_text = Strip(SubSeq(response_text, 1, FirstOpen - 1))
         /\ task_prompt = Strip(SubSeq(response_text, FirstOpen + 1, FirstClose - 1))

\* the first opening tag has no closing tag behind it
Unterminated == OpenAt # {} /\ \A c \in CloseAt : c < FirstOpen

\* C18: for a response whose opening tag has no closing tag behind it the
\* turn does not fail in extraction, there is no task text, the whole
\* response is the display text and execute_task is not called.
C18_UnterminatedIsConversational ==
  (turn_pc # "responded" /\ Unterminated) =>
    /\ turn_pc = "returned"
    /\ task_prompt = None
    /\ display_text = response_text
    /\ delegated = <<>>

IsTag(x) == x \in {OpenTag, CloseTag}

\* the tags of the response, in order
Tags == SelectSeq(response_text, IsTag)

\* two or more well-formed pairs, one after the other
SeveralPairs ==
  /\ Len(Tags) >= 4
  /\ \A i \in DOMAIN Tags : Tags[i] = (IF i % 2 = 1 THEN OpenTag ELSE CloseTag)

FirstPairContent == SubSeq(response_text, FirstOpen + 1, FirstClose - 1)

\* C19: execute_task is called at most once in a turn; for a response with
\* several pairs the one instruction executed is the content of the first
\* pair (trimmed by main.py) and nothing else is executed.
C19_OnlyFirstPairExecuted ==
  /\ Len(delegated) <= 1
  /\ (turn_pc \in {"delegated", "returned"} /\ SeveralPairs) =>
       delegated = << IF orchestrator = "main" THEN Strip(FirstPairContent)
                      ELSE FirstPairContent >>

C19_Witness ==
  /\ turn_pc = "returned"
  /\ response_text = <<OpenTag, "x", CloseTag, OpenTag, " ", CloseTag>>
  /\ delegated = << <<"x">> >>

\* the selected function is entered from the dispatch alone, once per
\* execute_task call, and its statements are executed in order, none twice
OperationInvokedOnce ==
  /\ pc' = "received" => pc \in {"idle", "done"}
  /\ pc' = "dispatch" => pc = "received"
  /\ (pc' = "run" /\ pc # "run") => (pc = "dispatch" /\ ip' = 1)
  /\ (pc' = "run" /\ pc = "run") => ip' > ip

\* a failed request is the last request of its call, and the call has
\* returned the apology for that failure
FailureIsFinal ==
  \A i \in DOMAIN calls :
    ~calls[i].ok =>
      /\ i = Len(calls)
      /\ Returned
      /\ ret.origin = "apology"
      /\ ret.e = HTTPError

\* C20: within one execute_task call the selected function is invoked at
\* most once, and a store request that failed is not sent again: the failure
\* leads directly to the failure result.
C20_NoRetry == []FailureIsFinal /\ [][OperationInvokedOnce]_vars

C20_Witness ==
  /\ Returned
  /\ Len(calls) = 2
  /\ calls[1].ok
  /\ ~calls[2].ok
  /\ Mutating(calls[2])
  /\ ret.e = HTTPError

\* call() has returned or raised for a response of the store
Answered == transport.pc = "returned" /\ transport.status # 0

\* C21: call() maps each response to one outcome: a status outside 2xx
\* raises and returns no payload, 204 returns None, and any other success
\* with a JSON object returns its data field when present and the object
\* otherwise.
C21_CallOutcome ==
  Answered =>
    IF ~(200 <= transport.status /\ transport.status < 300)
    THEN transport.raised # "none" /\ transport.payload = "none"
    ELSE IF transport.status = 204
         THEN transport.raised = "none" /\ transport.payload = "None"
         ELSE transport.body # "not_json" =>
                /\ transport.raised = "none"
                /\ transport.payload =
                     (IF transport.body = "object_with_data" THEN "data" ELSE "body")

\* the relationship types whose forward or reverse name is `name`, ignoring case
TypesNamed(name) ==
  { i \in DOMAIN RelationshipTypes :
      \/ Lower(RelationshipTypes[i].name) = Lower(name)
      \/ Lower(RelationshipTypes[i].name_reverse_relationship) = Lower(name) }

\* the forward names of all relationship types
ValidTypeNames == [i \in DOMAIN RelationshipTypes |-> RelationshipTypes[i].name]

\* request i is the answered relationship-type listing of set_relationship
IsTypeLookup(i) ==
  /\ tool_name = "set_relationship"
  /\ calls[i].fn = "list_relationship_types"
  /\ calls[i].ok

\* set_relationship has created nothing
NoRelationshipCreated ==
  \A i \in DOMAIN calls : calls[i].fn # "create_relationship" /\ ~Mutating(calls[i])

\* C22 as claimed: a name that is no type's forward or reverse name fails
\* with an error that enumerates all valid type names, and nothing is created.
C22_NotFoundEnumeratesTypes ==
  \A i \in DOMAIN calls :
    (IsTypeLookup(i) /\ TypesNamed(calls[i].name) = {}) =>
      /\ Returned
      /\ ret.e.kind = "RelationshipTypeNotFound"
      /\ ret.e.found = ValidTypeNames
      /\ NoRelationshipCreated

\* C22 amended: a name that is some type's forward or reverse name, ignoring
\* case, resolves to such a type; any other name fails with a ValueError
\* that names the queried name alone and enumerates no type, and nothing is
\* created.
C22_RelationshipTypeLookup ==
  \A i \in DOMAIN calls :
    IsTypeLookup(i) =>
      IF TypesNamed(calls[i].name) # {}
      THEN /\ \E k \in TypesNamed(calls[i].name) : RelationshipTypes[k].id = locals.found
           /\ ret.e.kind # "RelationshipTypeNotFound"
      ELSE /\ Returned
           /\ ret.origin = "apology"
           /\ ret.e = Exc("ValueError", "RelationshipTypeNotFound", calls[i].name, <<>>)
           /\ NoRelationshipCreated

C22_Witness ==
  /\ Returned
  /\ Len(calls) = 3
  /\ IsTypeLookup(3)
  /\ calls[3].name = Zed
  /\ ret.e.kind = "RelationshipTypeNotFound"

\* found by its reverse name in another case
C22_WitnessFound ==
  /\ Returned
  /\ Len(calls) = 3
  /\ IsTypeLookup(3)
  /\ calls[3].name = <<"S", "u", "b">>
  /\ locals.found = 2

\* the search of the running function returned exactly one contact and
\* neither the store nor the model failed
OneContactHealthy ==
  /\ Returned
  /\ BindError(tool_name, tool_args) = NoError
  /\ HealthyRun
  /\ calls # <<>>
  /\ IsSearch(1)
  /\ Len(calls[1].results) = 1

\* the tag names of the store
TagNames == { TagList[i].name : i \in DOMAIN TagList }

\* C23: the tag lookup of untag_person returns None for a name absent from
\* the tag list, so the call ends normally after listing the tags and
\* without any mutating request; when tag_person succeeds it has sent the
\* tag names to the store for the resolved contact.
C23_TagLookupAndUpsert ==
  /\ ( /\ OneContactHealthy
       /\ tool_name = "untag_person"
       /\ tool_args.tags_to_remove # <<>>
       /\ \A k \in DOMAIN tool_args.tags_to_remove :
            \A t \in TagNames : Lower(t) # Lower(tool_args.tags_to_remove[k]) )
     => /\ ret.origin = "summary"
        /\ \E i \in DOMAIN calls : calls[i].fn = "list_tags"
        /\ NoMutatingCall
  /\ (OneContactHealthy /\ tool_name = "tag_person" /\ ret.origin = "summary")
     => \E i \in DOMAIN calls :
          /\ calls[i].fn = "set_tags_for_contact"
          /\ calls[i].ids = {calls[1].results[1].id}

\* C24: add_message_to_conversation, called with arguments that bind and
\* with neither the store nor the model failing, first fetches the
\* conversation by its id, and the message-create request follows it.
C24_FetchThenCreateMessage ==
  ( /\ Returned
    /\ tool_name = "add_message_to_conversation"
    /\ BindError(tool_name, tool_args) = NoError
    /\ HealthyRun )
  => /\ Len(calls) = 2
     /\ calls[1].fn = "get_conversation"
     /\ calls[2].fn = "add_message_to_conversation"

\* the module whose function self.tools advertises under a name
AdvertisedModule(name) ==
  IF name \in AlfTools THEN "monica_alf" ELSE "monica_api_caller"

\* the module whose function getattr(alf, name) returns
DispatchedModule(name) ==
  IF name \in AlfFunctions THEN "monica_alf" ELSE "none"

\* C26: every advertised tool name the model proposes is dispatched to the
\* advertised function: the lookup by name succeeds and yields a function of
\* the module that was advertised under that name.
C26_AdvertisedToolDispatches ==
  (pc \in {"run", "done"} /\ tool_name \in Tools) =>
    /\ ret.e.kind # "NoSuchTool"
    /\ DispatchedModule(tool_name) = AdvertisedModule(tool_name)

\* the update requests the running function has sent for tasks
TaskUpdates == SelectSeq(calls, LAMBDA c : c.fn = "update_task")

\* C27: mark_task_as_complete, called with a task id and with neither the
\* store nor the model failing, reads the task first, sends at most one
\* update for it and returns its result, so that the task is completed
\* afterwards.
C27_MarkTaskCompleteIdempotent ==
  ( /\ Returned
    /\ tool_name = "mark_task_as_complete"
    /\ BindError(tool_name, tool_args) = NoError
    /\ HealthyRun )
  => /\ calls # <<>>
     /\ calls[1].fn = "get_task"
     /\ Len(TaskUpdates) <= 1
     /\ ret.origin = "summary"

\* the names of tags_to_remove that equal no tag's name, ignoring case
UnmatchedTagNames ==
  { k \in DOMAIN tool_args.tags_to_remove :
      \A t \in TagNames : Lower(t) # Lower(tool_args.tags_to_remove[k]) }

ReadBackAfterUpdate(e) ==
  /\ editors[e].pc = "got"
  /\ editors[e].op = "update"
  /\ editors[e].got_at = editors[e].seen + 1

\* C25: update_contact(id, updates) followed by get_contact(id) returns a
\* contact in which every field named in updates has the new value and every
\* other core field has the value it had before the update; create_contact
\* followed by get_contact returns the created first_name.
C25_UpdateThenGet ==
  \A e \in Editors :
    /\ ReadBackAfterUpdate(e) =>
         \A k \in CoreFields :
           editors[e].got[k] = IF editors[e].updates[k] # Absent
                               THEN editors[e].updates[k]
                               ELSE editors[e].current_data[k]
    /\ (editors[e].pc = "got" /\ editors[e].op = "create" /\ editors[e].got_at = 0)
         => editors[e].got["first_name"] = editors[e].first_name

\* the fields an updates dict names
NamedFields(u) == { k \in DictKeys : u[k] # Absent }

\* both callers have completed an update_contact of the same contact, one
\* changing the nickname and the other the occupation
TwoUpdatesDone(e1, e2) ==
  /\ e1 # e2
  /\ editors[e1].pc \in {"updated", "got"}
  /\ editors[e2].pc \in {"updated", "got"}
  /\ editors[e1].op = "update"
  /\ editors[e2].op = "update"
  /\ editors[e1].updates = Single("nickname", "Tester")
  /\ editors[e2].updates = set_contact_occupation("API Tester", "Test Corp")

\* C29: when two update_contact calls on the same contact change different
\* fields, then in every interleaving of their fetch and write steps the
\* contact ends with both changes applied.
C29_NoLostUpdate ==
  \A e1, e2 \in Editors :
    TwoUpdatesDone(e1, e2) =>
      /\ \A k \in NamedFields(editors[e1].updates) : person.fields[k] = editors[e1].updates[k]
      /\ \A k \in NamedFields(editors[e2].updates) : person.fields[k] = editors[e2].updates[k]

\* the same two calls, the second fetching after the first has written
C29_SequentialUpdatesKept ==
  \A e1, e2 \in Editors :
    ( /\ TwoUpdatesDone(e1, e2)
      /\ \/ editors[e1].seen > editors[e2].seen
         \/ editors[e2].seen > editors[e1].seen )
    => /\ \A k \in NamedFields(editors[e1].updates) : person.fields[k] = editors[e1].updates[k]
       /\ \A k \in NamedFields(editors[e2].updates) : person.fields[k] = editors[e2].updates[k]

Blank(text) == Strip(text) = Empty

\* C30: a blank or whitespace-only input leaves the chat history, the
\* session's orchestrator and the log history unchanged and calls neither
\* the orchestrator nor the dispatcher; a non-blank input creates the
\* session's orchestrator at most once and only while the state is None,
\* and a turn that returns grows the history by exactly one (input, reply)
\* pair and places its log entry, if it has one, before the older ones.
C30_ChatInterface ==
  [][ (ui' # ui /\ ui'.events = ui.events + 1) =>
        IF Blank(ui'.user_input)
        THEN /\ ui'.chatbot = ui.chatbot
             /\ ui'.orchestrator = ui.orchestrator
             /\ ui'.log_output = ui.log_output
             /\ ui'.called = ui.called
             /\ ui'.created = ui.created
        ELSE /\ ui'.created <= 1
             /\ ui.orchestrator # 0 => ui'.created = ui.created
             /\ ui'.ended = "returned" =>
                  /\ Len(ui'.chatbot) = Len(ui.chatbot) + 1
                  /\ ui'.chatbot[Len(ui'.chatbot)] = << ui'.user_input, BotMessage >>
             /\ \/ ui'.log_output = ui.log_output
                \/ /\ Len(ui'.log_output) = Len(ui.log_output) + 1
                   /\ ui'.log_output[1].user = ui'.user_input
                   /\ SubSeq(ui'.log_output, 2, Len(ui'.log_output)) = ui.log_output
    ]_vars

====
